---------------------------- MODULE Spec2Model ----------------------------
(***************************************************************************)
(* A model of src/src/App.tsx, the single React component of the QR code   *)
(* generator: its eight state hooks, the debouncing effect, the            *)
(* asynchronous render pipeline (generateQRCode, drawLogoToCanvas), the    *)
(* download handler and the input handlers wired up in the JSX.            *)
(*                                                                         *)
(* Scheduling follows the browser's event loop.  Input handlers, timer     *)
(* callbacks and image load/error events are tasks; the continuation of    *)
(* `await QRCode.toCanvas(...)` is a microtask, which runs before any      *)
(* further task (the encoder renders synchronously inside the call, so its *)
(* promise is already settled when the await is reached).  The image       *)
(* decode of drawLogoToCanvas is the only suspension during which other    *)
(* tasks run.  A state update together with the re-render and the effect   *)
(* it causes is one step.                                                  *)
(*                                                                         *)
(* The QR encoder (package qrcode) is outside the repository: it is        *)
(* modelled by what the pipeline observes of it, a layer written to the    *)
(* canvas or a rejection when the text exceeds the level-H capacity.  The  *)
(* result of canvas.getContext('2d'), which the code tests for null at     *)
(* each call, is an input of each call.                                    *)
(***************************************************************************)
EXTENDS Naturals, Integers, Sequences, FiniteSets

(***************************************************************************)
(* Bounds of the model.                                                    *)
(***************************************************************************)
\* the number of parameter changes (effect re-runs) a behaviour may hold
MaxChanges == 3

(***************************************************************************)
(* Input domains.                                                          *)
(***************************************************************************)
\* the text that exceeds the capacity of a level-H symbol
TooLong == "TOO_LONG"
\* what the user may type: nothing, two short texts, one text over capacity
Texts == {"", "a", "b", TooLong}
\* values of the two <input type="color"> elements
QrColors == {"#000000", "#ff0000"}
BgColors == {"#ffffff", "#00ff00"}
\* the light colour handed to the encoder for a transparent background
TransparentLight == "#00000000"

\* logoFile = null
NoFile == [name |-> "null", major |-> "", decodes |-> FALSE]
\* a decodable image, an image/* file whose bytes do not decode, a text file
GoodImage == [name |-> "logo.png", major |-> "image", decodes |-> TRUE]
CorruptImage == [name |-> "broken.png", major |-> "image", decodes |-> FALSE]
TextFile == [name |-> "notes.txt", major |-> "text", decodes |-> FALSE]
Files == {GoodImage, CorruptImage, TextFile}

\* the attributes of the logo size slider
LogoSizeMin == 10
LogoSizeMax == 50
LogoSizeStep == 1
LogoSizeDefault == 20
\* the attributes of the QR dimension slider
QrSizeMin == 128
QrSizeMax == 1024
QrSizeStep == 64
QrSizeDefault == 256
\* the margin handed to the encoder, in modules
Margin == 2
\* the size of a canvas element before the pipeline sizes it
DefaultCanvasWidth == 300
DefaultCanvasHeight == 150

\* every value a range slider can express
SliderValues(min, max, step) == {v \in min..max : (v - min) % step = 0}
\* the slider positions the model lets the user pick
LogoSizeInputs == {v \in SliderValues(LogoSizeMin, LogoSizeMax, LogoSizeStep) :
                     v \in {LogoSizeDefault, LogoSizeMax}}
QrSizeInputs == {v \in SliderValues(QrSizeMin, QrSizeMax, QrSizeStep) :
                   v \in {QrSizeMin, QrSizeDefault}}

VARIABLES
  text, qrColor, bgColor, isBgTransparent, logoFile, logoSizePercent, qrSize,
  isGenerated,      \* the eight useState hooks
  canvas,           \* canvasRef.current: its size and the layers drawn since it was cleared
  timers,           \* the pending setTimeout callbacks, each with the closure it captured
  cycles,           \* the generateQRCode calls that are suspended at an await
  objectURLs,       \* object URLs created and not revoked
  unhandled,        \* rejections that escaped generateQRCode
  ctxAvailable,     \* whether the latest canvas.getContext('2d') call gave a context
  version,          \* history: the number of times the effect has re-run
  calls,            \* history: the generateQRCode calls that passed the guard of line 26
  lastSuccess,      \* history: the call that most recently reached setIsGenerated(true)
  exported          \* history: the canvas contents the user last downloaded

deps == <<text, qrColor, bgColor, isBgTransparent, logoFile, logoSizePercent, qrSize>>
pipeline == <<canvas, cycles, objectURLs, unhandled, calls, lastSuccess>>
vars == <<deps, isGenerated, pipeline, timers, ctxAvailable, version, exported>>

(***************************************************************************)
(* The values a render of the component closes over: the dependency array  *)
(* of the effect, which is also everything generateQRCode reads.           *)
(***************************************************************************)
Snapshot ==
  [text |-> text, qrColor |-> qrColor, bgColor |-> bgColor,
   isBgTransparent |-> isBgTransparent, logoFile |-> logoFile,
   logoSizePercent |-> logoSizePercent, qrSize |-> qrSize]

\* lastSuccess before any cycle has succeeded
NoCall == [ver |-> -1, snap |-> [text |-> ""]]

\* exported before any download
NoExport == [width |-> 0, height |-> 0, layers |-> <<>>]

BlankCanvas == [width |-> DefaultCanvasWidth, height |-> DefaultCanvasHeight,
                layers |-> <<>>]

Init ==
  /\ text = ""
  /\ qrColor = "#000000"
  /\ bgColor = "#ffffff"
  /\ isBgTransparent = FALSE
  /\ logoFile = NoFile
  /\ logoSizePercent = LogoSizeDefault
  /\ qrSize = QrSizeDefault
  /\ isGenerated = FALSE
  /\ canvas = BlankCanvas
  \* the effect has run once on mount
  /\ timers = {[ver |-> 0, snap |-> Snapshot]}
  /\ cycles = {}
  /\ objectURLs = 0
  /\ unhandled = 0
  /\ ctxAvailable = TRUE
  /\ version = 0
  /\ calls = <<>>
  /\ lastSuccess = NoCall
  /\ exported = NoExport

(***************************************************************************)
(* The canvas and the two external collaborators that draw on it.          *)
(***************************************************************************)
\* a variant that leaves the canvas at the size it has
SetSizeIgnored(cv, w, h) == cv

\* canvas.width = w; canvas.height = h: sizing a canvas resets its bitmap
SetSize(cv, w, h) == [width |-> w, height |-> h, layers |-> <<>>]

\* ctx.clearRect(0, 0, canvas.width, canvas.height)
ClearRect(cv) == [cv EXCEPT !.layers = <<>>]

\* a variant that hands the stored background colour over in every case
EncoderOptionsOpaque(snap) ==
  [errorCorrectionLevel |-> "H", margin |-> Margin, width |-> snap.qrSize,
   dark |-> snap.qrColor, light |-> snap.bgColor]

\* the options object of the QRCode.toCanvas call
EncoderOptions(snap) ==
  [errorCorrectionLevel |-> "H", margin |-> Margin, width |-> snap.qrSize,
   dark |-> snap.qrColor,
   light |-> IF snap.isBgTransparent THEN TransparentLight ELSE snap.bgColor]

\* whether a level-H symbol can hold the text
WithinCapacity(t) == t # TooLong

\* QRCode.toCanvas(canvas, text, options): the symbol is drawn during the call,
\* or nothing is drawn and the promise it returns is rejected
ToCanvas(cv, t, opts) ==
  IF WithinCapacity(t)
    THEN [settled |-> "resolved",
          canvas |-> [cv EXCEPT !.layers =
                        Append(@, [kind |-> "qr", text |-> t, opts |-> opts])]]
    ELSE [settled |-> "rejected", canvas |-> cv]

\* a variant that rounds the side to whole pixels: Math.round(...)
LogoSizeRounded(cv, sizePercent) == 100 * ((cv.width * sizePercent + 50) \div 100)

\* Lengths are held in hundredths of a pixel: the code computes them in floating
\* point and does not round (256 * (20 / 100) is 51.2).
\* size = canvas.width * (sizePercent / 100)
LogoSize(cv, sizePercent) == cv.width * sizePercent
\* x = (canvas.width - size) / 2
LogoX(cv, sizePercent) == (100 * cv.width - LogoSize(cv, sizePercent)) \div 2
\* y = (canvas.height - size) / 2
LogoY(cv, sizePercent) == (100 * cv.height - LogoSize(cv, sizePercent)) \div 2

\* ctx.drawImage(img, x, y, size, size) in img.onload
DrawImage(cv, file, sizePercent) ==
  [cv EXCEPT !.layers =
     Append(@, [kind |-> "logo", file |-> file,
                x |-> LogoX(cv, sizePercent), y |-> LogoY(cv, sizePercent),
                w |-> LogoSize(cv, sizePercent), h |-> LogoSize(cv, sizePercent)])]

(***************************************************************************)
(* The debouncing effect.                                                  *)
(***************************************************************************)
\* a variant whose effect returns no cleanup: the old timer stays armed
ClearNothing(ts, id) == ts

\* clearTimeout(timeout), the cleanup the previous run of the effect returned
ClearTimeout(ts, id) == {t \in ts : t.ver # id}

\* a variant of the effect that arms no timer
SetTimeoutNever(ts, id, snap) == ts

\* setTimeout(callback, 100): the callback closes over the render's values
SetTimeout(ts, id, snap) == ts \cup {[ver |-> id, snap |-> snap]}

\* A re-render whose dependency array changed: React runs the cleanup of the
\* previous effect, then the effect of this render.
UseEffect(next) ==
  /\ version' = version + 1
  /\ timers' = SetTimeout(ClearTimeout(timers, version), version + 1, next)

\* the continuation of an await is pending: no task runs before it
MicrotaskPending == \E c \in cycles : c.pc = "encoding"

\* A state update that changes a dependency, the re-render and its effect.
Commit(next) ==
  /\ ~MicrotaskPending
  /\ version < MaxChanges
  /\ next # Snapshot
  /\ text' = next.text
  /\ qrColor' = next.qrColor
  /\ bgColor' = next.bgColor
  /\ isBgTransparent' = next.isBgTransparent
  /\ logoFile' = next.logoFile
  /\ logoSizePercent' = next.logoSizePercent
  /\ qrSize' = next.qrSize
  /\ UseEffect(next)
  /\ UNCHANGED <<pipeline, ctxAvailable, exported>>

(***************************************************************************)
(* The input handlers of the JSX.                                          *)
(***************************************************************************)
\* a variant of the text input's handler without setIsGenerated(false)
TextOnChangeKeepsStatus(v) ==
  /\ Commit([Snapshot EXCEPT !.text = v])
  /\ UNCHANGED isGenerated

\* a variant that resets the status only when the new text will be rendered
TextOnChangeResetsIfScheduled(v) ==
  /\ Commit([Snapshot EXCEPT !.text = v])
  /\ isGenerated' = (v = "" /\ isGenerated)

\* the text input: setText(e.target.value); setIsGenerated(false)
TextOnChange(v) ==
  /\ Commit([Snapshot EXCEPT !.text = v])
  /\ isGenerated' = FALSE

QrColorOnChange(c) ==
  /\ Commit([Snapshot EXCEPT !.qrColor = c])
  /\ UNCHANGED isGenerated

\* the background colour input is rendered only when !isBgTransparent
BgColorOnChange(c) ==
  /\ ~isBgTransparent
  /\ Commit([Snapshot EXCEPT !.bgColor = c])
  /\ UNCHANGED isGenerated

\* the checkbox: setIsBgTransparent(e.target.checked)
TransparentOnChange ==
  /\ Commit([Snapshot EXCEPT !.isBgTransparent = ~isBgTransparent])
  /\ UNCHANGED isGenerated

\* file.type.startsWith('image/')
IsImageType(file) == file.major = "image"

\* a variant of handleFileDrop without the check of file.type
HandleFileDropAnyType(file) ==
  /\ logoFile = NoFile
  /\ ~MicrotaskPending
  /\ IF file # NoFile
       THEN Commit([Snapshot EXCEPT !.logoFile = file]) /\ UNCHANGED isGenerated
       ELSE UNCHANGED vars

\* handleFileDrop: the drop zone is rendered only when !logoFile; a drop with
\* no file or with a file of another type changes nothing
HandleFileDrop(file) ==
  /\ logoFile = NoFile
  /\ ~MicrotaskPending
  /\ IF file # NoFile /\ IsImageType(file)
       THEN Commit([Snapshot EXCEPT !.logoFile = file]) /\ UNCHANGED isGenerated
       ELSE UNCHANGED vars

\* the file input: setLogoFile(e.target.files?.[0] ?? null); accept="image/*"
\* only filters what the picker shows, the user can choose any file
FileInputOnChange(file) ==
  /\ logoFile = NoFile
  /\ Commit([Snapshot EXCEPT !.logoFile = file])
  /\ UNCHANGED isGenerated

\* the Remove button, rendered only when logoFile is set
RemoveOnClick ==
  /\ logoFile # NoFile
  /\ Commit([Snapshot EXCEPT !.logoFile = NoFile])
  /\ UNCHANGED isGenerated

\* the logo size slider is disabled when !logoFile
LogoSizeOnChange(v) ==
  /\ logoFile # NoFile
  /\ Commit([Snapshot EXCEPT !.logoSizePercent = v])
  /\ UNCHANGED isGenerated

QrSizeOnChange(v) ==
  /\ Commit([Snapshot EXCEPT !.qrSize = v])
  /\ UNCHANGED isGenerated

(***************************************************************************)
(* The render pipeline: the timeout callback, generateQRCode and           *)
(* drawLogoToCanvas.                                                       *)
(***************************************************************************)
\* a variant without the two guards on text
GenerateAlways(snap) == TRUE

\* `if (text)` in the callback and `if (!text || !canvas) return` in
\* generateQRCode; the canvas element is mounted for the component's lifetime
ShouldGenerate(snap) == snap.text # ""

\* a variant whose catch block only logs the error
CatchLogsOnly == UNCHANGED <<isGenerated, unhandled>>

\* the catch block: console.error(...); setIsGenerated(false)
Catch ==
  /\ isGenerated' = FALSE
  /\ UNCHANGED unhandled

\* a variant that ends the try block without setIsGenerated(true)
SucceedSilently(c) ==
  /\ lastSuccess' = [ver |-> c.ver, snap |-> c.snap]
  /\ UNCHANGED <<isGenerated, unhandled>>

\* setIsGenerated(true), the last statement of the try block
Succeed(c) ==
  /\ isGenerated' = TRUE
  /\ lastSuccess' = [ver |-> c.ver, snap |-> c.snap]
  /\ UNCHANGED unhandled

\* the timer fires while text is empty: generateQRCode does not run
TimeoutSkip(t) ==
  /\ t \in timers
  /\ ~MicrotaskPending
  /\ ~ShouldGenerate(t.snap)
  /\ timers' = timers \ {t}
  /\ UNCHANGED <<deps, isGenerated, pipeline, ctxAvailable, version, exported>>

\* generateQRCode returns at `if (!ctx) return`: nothing is drawn or set
TimeoutNoContext(t) ==
  /\ t \in timers
  /\ ~MicrotaskPending
  /\ ShouldGenerate(t.snap)
  /\ ctxAvailable' = FALSE
  /\ timers' = timers \ {t}
  /\ calls' = Append(calls, t)
  /\ UNCHANGED <<deps, isGenerated, canvas, cycles, objectURLs, unhandled,
                 lastSuccess, version, exported>>

\* generateQRCode up to its first await: the canvas is sized and cleared and
\* the encoder is called with the values the callback closed over
TimeoutGenerate(t) ==
  /\ t \in timers
  /\ ~MicrotaskPending
  /\ ShouldGenerate(t.snap)
  /\ ctxAvailable' = TRUE
  /\ timers' = timers \ {t}
  /\ calls' = Append(calls, t)
  /\ LET cleared == ClearRect(SetSize(canvas, t.snap.qrSize, t.snap.qrSize))
         drawn == ToCanvas(cleared, t.snap.text, EncoderOptions(t.snap))
     IN /\ canvas' = drawn.canvas
        /\ cycles' = cycles \cup {[ver |-> t.ver, snap |-> t.snap,
                                    opts |-> EncoderOptions(t.snap),
                                    settled |-> drawn.settled, pc |-> "encoding"]}
  /\ UNCHANGED <<deps, isGenerated, objectURLs, unhandled, lastSuccess,
                 version, exported>>

\* the encoder's promise was rejected: control passes to the catch block
EncodeRejected(c) ==
  /\ c \in cycles
  /\ c.pc = "encoding"
  /\ c.settled = "rejected"
  /\ cycles' = cycles \ {c}
  /\ Catch
  /\ UNCHANGED <<deps, canvas, objectURLs, calls, lastSuccess, timers,
                 ctxAvailable, version, exported>>

\* the encoder's promise was fulfilled and logoFile is null
EncodeResolved(c) ==
  /\ c \in cycles
  /\ c.pc = "encoding"
  /\ c.settled = "resolved"
  /\ c.snap.logoFile = NoFile
  /\ cycles' = cycles \ {c}
  /\ Succeed(c)
  /\ UNCHANGED <<deps, canvas, objectURLs, calls, timers, ctxAvailable,
                 version, exported>>

\* the encoder's promise was fulfilled and a logo is set: drawLogoToCanvas
\* creates an Image and points it at URL.createObjectURL(file), or rejects
\* when it gets no context
DrawLogoToCanvas(c) ==
  /\ c \in cycles
  /\ c.pc = "encoding"
  /\ c.settled = "resolved"
  /\ c.snap.logoFile # NoFile
  /\ ctxAvailable' \in BOOLEAN
  /\ IF ctxAvailable'
       THEN /\ objectURLs' = objectURLs + 1
            /\ cycles' = (cycles \ {c}) \cup {[c EXCEPT !.pc = "decoding"]}
            /\ UNCHANGED <<isGenerated, unhandled>>
       ELSE /\ cycles' = cycles \ {c}
            /\ Catch
            /\ UNCHANGED objectURLs
  /\ UNCHANGED <<deps, canvas, calls, lastSuccess, timers, version, exported>>

\* img.onload: the logo is drawn on the canvas as it is now, the promise is
\* resolved and generateQRCode runs to its end
ImgOnload(c) ==
  /\ c \in cycles
  /\ c.pc = "decoding"
  /\ ~MicrotaskPending
  /\ c.snap.logoFile.decodes
  /\ canvas' = DrawImage(canvas, c.snap.logoFile, c.snap.logoSizePercent)
  /\ cycles' = cycles \ {c}
  /\ Succeed(c)
  /\ UNCHANGED <<deps, objectURLs, calls, timers, ctxAvailable, version,
                 exported>>

\* a variant with img.onerror = resolve: a failed load counts as drawn
ImgOnerrorResolves(c) ==
  /\ c \in cycles
  /\ c.pc = "decoding"
  /\ ~MicrotaskPending
  /\ ~c.snap.logoFile.decodes
  /\ cycles' = cycles \ {c}
  /\ Succeed(c)
  /\ UNCHANGED <<deps, canvas, objectURLs, calls, timers, ctxAvailable,
                 version, exported>>

\* img.onerror = reject: control passes to the catch block of generateQRCode
ImgOnerror(c) ==
  /\ c \in cycles
  /\ c.pc = "decoding"
  /\ ~MicrotaskPending
  /\ ~c.snap.logoFile.decodes
  /\ cycles' = cycles \ {c}
  /\ Catch
  /\ UNCHANGED <<deps, canvas, objectURLs, calls, lastSuccess, timers,
                 ctxAvailable, version, exported>>

(***************************************************************************)
(* Export.                                                                 *)
(***************************************************************************)
\* a variant that renders the button unconditionally
ButtonAlwaysRendered == TRUE

\* {isGenerated && <button onClick={handleDownload}>}
DownloadButtonRendered == isGenerated

\* handleDownload: link.href = canvas.toDataURL('image/png'); link.click()
HandleDownload ==
  /\ DownloadButtonRendered
  /\ ~MicrotaskPending
  /\ exported' = canvas
  /\ UNCHANGED <<deps, isGenerated, pipeline, timers, ctxAvailable, version>>

Next ==
  \/ \E v \in Texts : TextOnChange(v)
  \/ \E c \in QrColors : QrColorOnChange(c)
  \/ \E c \in BgColors : BgColorOnChange(c)
  \/ TransparentOnChange
  \/ \E f \in Files \cup {NoFile} : HandleFileDrop(f)
  \/ \E f \in Files : FileInputOnChange(f)
  \/ RemoveOnClick
  \/ \E v \in LogoSizeInputs : LogoSizeOnChange(v)
  \/ \E v \in QrSizeInputs : QrSizeOnChange(v)
  \/ \E t \in timers : TimeoutSkip(t)
  \/ \E t \in timers : TimeoutNoContext(t)
  \/ \E t \in timers : TimeoutGenerate(t)
  \/ \E c \in cycles : EncodeRejected(c)
  \/ \E c \in cycles : EncodeResolved(c)
  \/ \E c \in cycles : DrawLogoToCanvas(c)
  \/ \E c \in cycles : ImgOnload(c)
  \/ \E c \in cycles : ImgOnerror(c)
  \/ HandleDownload

Spec == Init /\ [][Next]_vars

(***************************************************************************)
(* Fairness: a timer that stays armed fires, a settled promise's           *)
(* continuation runs, and an image load ends in a load or an error event.  *)
(* Nothing obliges the user to act.                                        *)
(***************************************************************************)
TimerFires == \E t \in timers : TimeoutSkip(t) \/ TimeoutNoContext(t) \/ TimeoutGenerate(t)
Continuation == \E c \in cycles : EncodeRejected(c) \/ EncodeResolved(c) \/ DrawLogoToCanvas(c)
ImageEvent == \E c \in cycles : ImgOnload(c) \/ ImgOnerror(c)

LiveSpec ==
  /\ Init
  /\ [][Next]_vars
  /\ WF_vars(TimerFires)
  /\ WF_vars(Continuation)
  /\ WF_vars(ImageEvent)

(***************************************************************************)
(* Helpers of the properties.                                              *)
(***************************************************************************)
Last(seq) == seq[Len(seq)]
\* the cycles that end in this step
Ending == {c \in cycles : \A d \in cycles' : d.ver # c.ver}

(***************************************************************************)
(* C1: export is possible only while GenerationStatus is true: the         *)
(* download button is rendered exactly when isGenerated holds, and every   *)
(* step that hands a canvas to the user starts in a state where            *)
(* isGenerated is true.                                                    *)
(***************************************************************************)
C1_ExportOnlyWhenGenerated ==
  /\ [](DownloadButtonRendered <=> isGenerated)
  /\ [][exported' # exported => isGenerated]_vars

\* an export has happened
C1_Witness == exported # NoExport /\ exported = canvas /\ isGenerated

(***************************************************************************)
(* C2: whenever GenerationStatus is true, text is non-empty and the most   *)
(* recent render cycle that completed successfully was started with the    *)
(* current value of text.                                                  *)
(***************************************************************************)
C2_StatusMeansCurrentText ==
  isGenerated => (text # "" /\ lastSuccess # NoCall /\ lastSuccess.snap.text = text)

(***************************************************************************)
(* C3, as claimed: a change to any watched parameter resets                *)
(* GenerationStatus to false in the same step, and starts no render cycle  *)
(* in that step (the pipeline is re-entered only by the debounce timer).   *)
(***************************************************************************)
C3_AnyChangeResetsStatus ==
  [][version' # version =>
       /\ isGenerated' = FALSE
       /\ cycles' = cycles
       /\ calls' = calls]_vars

(***************************************************************************)
(* C3, amended: a change to text resets GenerationStatus to false in the   *)
(* same step; a change to any other watched parameter leaves it as it is;  *)
(* either change re-arms the timer and starts no render cycle, and a       *)
(* regeneration starts only in a step in which a timer fires.              *)
(***************************************************************************)
C3_TextChangeResetsStatus ==
  /\ [][version' # version =>
         /\ text' # text => isGenerated' = FALSE
         /\ text' = text => isGenerated' = isGenerated
         /\ timers' = {[ver |-> version', snap |-> Snapshot']}
         /\ cycles' = cycles /\ calls' = calls /\ canvas' = canvas]_vars
  /\ [][calls' # calls =>
         /\ version' = version
         /\ \E t \in timers : timers' = timers \ {t}]_vars

\* text was changed in READY: the status is reset and the timer is armed
C3_Witness ==
  /\ lastSuccess # NoCall /\ lastSuccess.ver = 1 /\ version = 2
  /\ text # lastSuccess.snap.text /\ text # ""
  /\ ~isGenerated /\ timers # {} /\ cycles = {}

(***************************************************************************)
(* C4: debounce coalescing.  A change cancels the timer armed by the       *)
(* change before it, so at most one timer is pending and it is the one of  *)
(* the last change; a regeneration that starts uses the parameter values   *)
(* as they are after the last change; no change gets two regenerations;    *)
(* and when text is non-empty after a change and no further change         *)
(* arrives, the regeneration for that change does start (from a state with *)
(* a timer pending and a non-empty text, a state follows where text is     *)
(* empty again or the last regeneration is the one of the current values). *)
(***************************************************************************)
C4_DebounceCoalesces ==
  /\ [](\A t \in timers : t.ver = version /\ t.snap = Snapshot)
  /\ [][calls' # calls =>
         /\ calls' = Append(calls, [ver |-> version, snap |-> Snapshot])
         /\ \A i \in 1..Len(calls) : calls[i].ver < version]_vars
  /\ (timers # {} /\ text # "")
       ~> (text = "" \/ (calls # <<>> /\ Last(calls) = [ver |-> version, snap |-> Snapshot]))

\* after a first regeneration, two changes in a row with text non-empty (the
\* colour, the transparency) got one regeneration, with the values of the second
C4_Witness ==
  /\ version = 3
  /\ Len(calls) = 2
  /\ calls[1].ver = 1 /\ calls[1].snap.text = "a"
  /\ calls[2] = [ver |-> 3, snap |-> Snapshot]
  /\ text = "a" /\ qrColor = "#ff0000" /\ isBgTransparent

(***************************************************************************)
(* C5: at most one render cycle is in flight (started and not yet ended    *)
(* in success or failure) at any time.                                     *)
(***************************************************************************)
C5_AtMostOneInFlight == Cardinality(cycles) <= 1

(***************************************************************************)
(* C6: once a render cycle of a newer snapshot has begun, no cycle of an   *)
(* older snapshot writes to the canvas or to isGenerated: a cycle that     *)
(* ends (drawing its logo, setting the status) is the newest one begun.    *)
(***************************************************************************)
C6_NoStaleWrite ==
  [][\A c \in Ending : c.ver = Last(calls).ver]_vars

(***************************************************************************)
(* C7: every object URL a logo draw acquires is released when the image    *)
(* has been drawn or has failed to load: when no render cycle is in        *)
(* flight, no object URL is outstanding.                                   *)
(***************************************************************************)
C7_NoObjectURLLeak == (cycles = {}) => (objectURLs = 0)

(***************************************************************************)
(* C8: as long as text stays empty, whatever else is changed, no           *)
(* regeneration starts, isGenerated stays false and nothing is exported.   *)
(***************************************************************************)
C8_EmptyTextNeverRenders ==
  [](text = "") =>
    [](calls = <<>> /\ cycles = {} /\ canvas = BlankCanvas /\ ~isGenerated
        /\ ~DownloadButtonRendered /\ exported = NoExport)

\* three other parameters were changed, one change each, and the last timer
\* has fired: text was never touched
C8_Witness ==
  /\ text = "" /\ version = 3 /\ timers = {}
  /\ qrColor # "#000000" /\ bgColor # "#ffffff" /\ isBgTransparent
  /\ calls = <<>> /\ ~isGenerated

(***************************************************************************)
(* C9: with a text within capacity and no logo, once the parameters stop   *)
(* changing the timer fires and the render cycle of the last change ends   *)
(* with isGenerated = TRUE, unless its call got no 2D context: from a      *)
(* state with a timer pending and such parameters, a state follows where   *)
(* the parameters are no longer such, or the call of the current values    *)
(* got no context, or the cycle of the current values has ended and left   *)
(* isGenerated true.  It is about the end of that cycle: an older cycle    *)
(* still waiting for its image may write to isGenerated afterwards (see    *)
(* C6).                                                                    *)
(***************************************************************************)
C9_RenderEndsReady ==
  (/\ timers # {}
   /\ text # "" /\ WithinCapacity(text) /\ logoFile = NoFile)
    ~> \/ ~(text # "" /\ WithinCapacity(text) /\ logoFile = NoFile)
       \/ calls # <<>> /\ Last(calls).ver = version /\ ~ctxAvailable
       \/ /\ isGenerated
          /\ lastSuccess = [ver |-> version, snap |-> Snapshot]
          /\ \A c \in cycles : c.ver # version

\* the cycle of the last change has ended in READY
C9_Witness ==
  /\ isGenerated /\ lastSuccess = [ver |-> version, snap |-> Snapshot]
  /\ logoFile = NoFile /\ timers = {} /\ cycles = {}
  /\ canvas.layers = <<[kind |-> "qr", text |-> text, opts |-> EncoderOptions(Snapshot)]>>

(***************************************************************************)
(* C10: a cycle whose text exceeds the capacity has its encode rejected,   *)
(* and the step that ends a cycle with a rejected encode sets isGenerated  *)
(* to FALSE, acquires no object URL and draws nothing (the logo compositor *)
(* does not run), records no success and lets no rejection escape.         *)
(***************************************************************************)
C10_EncodeFailureEndsFailed ==
  /\ [](unhandled = 0)
  /\ [](\A c \in cycles : ~WithinCapacity(c.snap.text) =>
                             c.settled = "rejected" /\ c.pc = "encoding")
  /\ [][\A c \in cycles : c.settled = "rejected" =>
          /\ c \in Ending
          /\ isGenerated' = FALSE
          /\ objectURLs' = objectURLs
          /\ canvas' = canvas
          /\ lastSuccess' = lastSuccess]_vars

\* a cycle over capacity, started with a logo set, has ended in FAILED
C10_Witness ==
  /\ calls # <<>> /\ Last(calls).ver = version
  /\ ~WithinCapacity(text) /\ logoFile # NoFile
  /\ cycles = {} /\ timers = {} /\ ~isGenerated /\ ctxAvailable
  /\ canvas.layers = <<>>


\* the layer the encoder draws for the values a cycle closed over
QrLayer(snap) == [kind |-> "qr", text |-> snap.text, opts |-> EncoderOptions(snap)]

(***************************************************************************)
(* C11: a logo that fails to decode ends its cycle in FAILED inside the    *)
(* pipeline.  While the newest cycle waits for its image its base QR is    *)
(* the bottom layer of the canvas; the step that ends a cycle whose logo   *)
(* does not decode sets isGenerated to FALSE, leaves the canvas as it is   *)
(* (the base QR stays, no overlay is drawn), records no success and lets   *)
(* no rejection escape; and afterwards, as in every state, the text input  *)
(* still takes a change and an armed timer still fires.                    *)
(***************************************************************************)
C11_DecodeFailureEndsFailed ==
  /\ [](unhandled = 0)
  /\ [](\A c \in cycles :
          (c.pc = "decoding" /\ c.ver = Last(calls).ver) =>
            (canvas.layers # <<>> /\ canvas.layers[1] = QrLayer(c.snap)))
  /\ [][\A c \in Ending : (c.pc = "decoding" /\ ~c.snap.logoFile.decodes) =>
          /\ isGenerated' = FALSE
          /\ canvas' = canvas
          /\ lastSuccess' = lastSuccess]_vars
  /\ []((version < MaxChanges /\ ~MicrotaskPending) =>
          ENABLED (\E v \in Texts : TextOnChange(v)))
  /\ []((timers # {} /\ ~MicrotaskPending) => ENABLED TimerFires)

\* the cycle of a corrupt logo has ended in FAILED with its base QR on the
\* canvas, and a later change has armed the timer again
C11_Witness ==
  /\ calls # <<>> /\ Last(calls).ver = 2 /\ version = 3
  /\ Last(calls).snap.logoFile = CorruptImage
  /\ cycles = {} /\ ~isGenerated /\ timers # {}
  /\ canvas.layers = <<QrLayer(Last(calls).snap)>>


(***************************************************************************)
(* C12: a drop of a file whose type does not begin with "image/" (or of no *)
(* file) changes nothing: every step that is such a drop leaves the        *)
(* parameters, isGenerated, the timers and all the rest as they are.  With *)
(* no logo set, a cycle never waits for an image, and one whose encode     *)
(* succeeded ends in READY with the bare QR on the canvas and no object    *)
(* URL acquired.                                                           *)
(***************************************************************************)
C12_NonImageDropIgnored ==
  /\ [][\A f \in Files \cup {NoFile} :
          (f = NoFile \/ ~IsImageType(f)) =>
            (HandleFileDrop(f) => UNCHANGED vars)]_vars
  /\ [](\A c \in cycles : c.snap.logoFile = NoFile => c.pc = "encoding")
  /\ [][\A c \in Ending : (c.snap.logoFile = NoFile /\ c.settled = "resolved") =>
          /\ isGenerated' = TRUE
          /\ canvas' = canvas
          /\ canvas.layers = <<QrLayer(c.snap)>>
          /\ objectURLs' = objectURLs]_vars

\* the drop zone takes a text file while a valid text is in READY without a
\* logo: the drop leaves this very state
C12_Witness ==
  /\ ENABLED HandleFileDrop(TextFile)
  /\ text = "a" /\ logoFile = NoFile /\ isGenerated
  /\ lastSuccess = [ver |-> version, snap |-> Snapshot]
  /\ canvas.layers = <<QrLayer(Snapshot)>> /\ objectURLs = 0


\* the alpha channel of a hex colour: #rrggbb is opaque, #rrggbbaa carries it
HexAlpha(c) == CASE c = "#00000000" -> 0
                 [] c \in QrColors \cup BgColors -> 255

(***************************************************************************)
(* C13: in every encode call the dark colour handed to the encoder is      *)
(* qrColor; the light colour is fully transparent (alpha 0) when           *)
(* isBgTransparent is set, whatever bgColor holds, and bgColor otherwise;  *)
(* and the symbol on the canvas is drawn with those options.  (A cycle is  *)
(* at its first await right after the call, with the component's values    *)
(* still those it closed over.)                                            *)
(***************************************************************************)
C13_TransparencyInvariant ==
  \A c \in cycles : c.pc = "encoding" =>
    /\ c.snap = Snapshot
    /\ c.opts.dark = qrColor
    /\ isBgTransparent => HexAlpha(c.opts.light) = 0
    /\ ~isBgTransparent => c.opts.light = bgColor
    /\ c.settled = "resolved" =>
         canvas.layers = <<[kind |-> "qr", text |-> text, opts |-> c.opts]>>

\* an encode call with a transparent background over a stored green
C13_Witness ==
  \E c \in cycles :
    /\ c.pc = "encoding" /\ c.settled = "resolved"
    /\ isBgTransparent /\ bgColor = "#00ff00"
    /\ c.opts.light = "#00000000"


\* the layer a step has just added on top of the canvas is a logo
LogoDrawn ==
  /\ Len(canvas'.layers) = Len(canvas.layers) + 1
  /\ Last(canvas'.layers).kind = "logo"

(***************************************************************************)
(* C14, as claimed: the logo is drawn into a square whose side is the      *)
(* outputDimension of the cycle that invoked the compositor times its      *)
(* logoSizePercent / 100, in whole pixels, at offset (outputDimension -    *)
(* side) / 2 on both axes: 51 x 51 at 102.5 for 256 and 20.  Lengths are   *)
(* in hundredths of a pixel.                                               *)
(***************************************************************************)
C14_LogoPlacementRounded ==
  [][LogoDrawn =>
       \A c \in Ending :
         LET l == Last(canvas'.layers)
             side == 100 * ((c.snap.qrSize * c.snap.logoSizePercent + 50) \div 100)
         IN /\ l.w = side /\ l.h = side
            /\ 2 * l.x = 100 * c.snap.qrSize - side
            /\ 2 * l.y = 100 * c.snap.qrSize - side
            /\ (c.snap.qrSize = 256 /\ c.snap.logoSizePercent = 20) =>
                 (l.w = 5100 /\ l.x = 10250 /\ l.y = 10250)]_vars

(***************************************************************************)
(* C14, amended: the logo is drawn into a square whose side is the width   *)
(* of the canvas at the time the image has loaded times the                *)
(* logoSizePercent of the cycle that invoked the compositor / 100, not     *)
(* rounded, centred on both axes: 51.2 x 51.2 at 102.4 on a canvas of 256  *)
(* with 20 percent.  The canvas has the outputDimension of that cycle when *)
(* it is the newest cycle begun.                                           *)
(***************************************************************************)
C14_LogoPlacement ==
  [][LogoDrawn =>
       \A c \in Ending :
         LET l == Last(canvas'.layers)
         IN /\ l.file = c.snap.logoFile
            /\ l.w = canvas.width * c.snap.logoSizePercent
            /\ l.h = l.w
            /\ l.x + l.w + l.x = 100 * canvas.width
            /\ l.y + l.h + l.y = 100 * canvas.height
            /\ c.ver = Last(calls).ver =>
                 (canvas.width = c.snap.qrSize /\ canvas.height = c.snap.qrSize)
            /\ (canvas.width = 256 /\ c.snap.logoSizePercent = 20) =>
                 (l.w = 5120 /\ l.x = 10240 /\ l.y = 10240)]_vars

\* the default logo of 20 percent drawn on the default canvas of 256
C14_Witness ==
  /\ canvas.width = 256 /\ Len(canvas.layers) = 2
  /\ canvas.layers[2].kind = "logo"
  /\ canvas.layers[2].w = 5120 /\ canvas.layers[2].x = 10240
  /\ isGenerated /\ lastSuccess.snap.logoSizePercent = 20


(***************************************************************************)
(* C15: a cycle that cannot obtain the drawable context ends with          *)
(* isGenerated = FALSE, whatever isGenerated was before, and is not        *)
(* retried: the step in which generateQRCode gets no context leaves        *)
(* isGenerated false, starts no cycle and arms no timer, and so does the   *)
(* step in which drawLogoToCanvas gets none.                               *)
(***************************************************************************)
C15_NoContextEndsFailed ==
  [][(\/ \E t \in timers : TimeoutNoContext(t)
      \/ \E c \in cycles : DrawLogoToCanvas(c) /\ ~ctxAvailable')
       => /\ isGenerated' = FALSE
          /\ timers' \subseteq timers
          /\ cycles' \subseteq cycles]_vars


(***************************************************************************)
(* C16: a cycle sizes the canvas to its qrSize and clears it before it     *)
(* calls the encoder: when the encoder's promise has settled and the       *)
(* cycle has not gone on yet, the canvas has the cycle's qrSize on both    *)
(* axes and holds the QR code of the cycle's values and nothing else after *)
(* a successful encode (nothing at all after a failed one), whatever was   *)
(* on it before and also when the cycle is the first with a transparent    *)
(* background.                                                             *)
(***************************************************************************)
C16_ClearedBeforeEncode ==
  \A c \in cycles : c.pc = "encoding" =>
    /\ canvas.width = c.snap.qrSize /\ canvas.height = c.snap.qrSize
    /\ c.settled = "resolved" =>
         canvas.layers = <<[kind |-> "qr", text |-> c.snap.text, opts |-> c.opts]>>
    /\ c.settled = "rejected" => canvas.layers = <<>>

\* a transparent cycle has encoded on a canvas that held an opaque QR code
\* with a logo, which was downloaded
C16_Witness ==
  \E c \in cycles :
    /\ c.pc = "encoding" /\ c.settled = "resolved"
    /\ lastSuccess # NoCall
    /\ lastSuccess.snap.logoFile = GoodImage
    /\ c.opts.light = TransparentLight
    /\ canvas.layers = <<QrLayer(c.snap)>>
    /\ exported # NoExport /\ Len(exported.layers) = 2


(***************************************************************************)
(* C17: no automatic retry.  A call of generateQRCode is made only by a    *)
(* pending timer, which it uses up, and a timer is armed only by a change  *)
(* of a watched parameter; each change has at most one call.  The step     *)
(* that ends a cycle, with its update of isGenerated, arms no timer and    *)
(* makes no call.  A change arms the timer of the new values in the same   *)
(* step, and when a call has been made before and text is non-empty with a *)
(* timer pending, a state follows where text is empty or the call of the   *)
(* current values has been made.                                           *)
(***************************************************************************)
C17_NoAutomaticRetry ==
  /\ [][calls' # calls =>
         \E t \in timers : timers' = timers \ {t} /\ calls' = Append(calls, t)]_vars
  /\ [][timers' # timers =>
         \/ version' = version /\ timers' \subseteq timers
         \/ /\ version' = version + 1 /\ Snapshot' # Snapshot
            /\ [ver |-> version', snap |-> Snapshot'] \in timers']_vars
  /\ [](\A i, j \in 1..Len(calls) : i < j => calls[i].ver < calls[j].ver)
  /\ [][Ending # {} =>
         timers' = timers /\ calls' = calls /\ version' = version]_vars
  /\ [][Snapshot' # Snapshot =>
         [ver |-> version', snap |-> Snapshot'] \in timers' /\ version' = version + 1]_vars
  /\ (calls # <<>> /\ timers # {} /\ text # "")
       ~> \/ text = ""
          \/ calls # <<>> /\ Last(calls) = [ver |-> version, snap |-> Snapshot]

\* a cycle has ended in FAILED, nothing followed until the text was changed,
\* and the attempt of that change has ended in READY
C17_Witness ==
  /\ Len(calls) = 2
  /\ ~WithinCapacity(calls[1].snap.text)
  /\ calls[2] = [ver |-> version, snap |-> Snapshot]
  /\ calls[2].ver = calls[1].ver + 1
  /\ lastSuccess = calls[2] /\ isGenerated
  /\ timers = {} /\ cycles = {}


(***************************************************************************)
(* C18: the step that changes text leaves isGenerated false, and it is the *)
(* step of the change itself: no timer has fired in it (no call is made,   *)
(* no cycle begins or ends, the timer of the new text is pending after     *)
(* it), and it is so both when the new text is empty, so that the pending  *)
(* timer will start no regeneration, and when it is not.                   *)
(***************************************************************************)
C18_TextChangeInvalidatesAtOnce ==
  [][text' # text =>
       /\ isGenerated' = FALSE
       /\ calls' = calls /\ cycles' = cycles /\ lastSuccess' = lastSuccess
       /\ \E t \in timers' : /\ t.snap.text = text'
                              /\ ShouldGenerate(t.snap) <=> text' # ""]_vars

\* the text was emptied in READY: the status is reset although the pending
\* timer will start no regeneration
C18_Witness ==
  /\ text = "" /\ ~isGenerated
  /\ lastSuccess # NoCall /\ lastSuccess.ver = version - 1
  /\ timers = {[ver |-> version, snap |-> Snapshot]}
  /\ cycles = {} /\ canvas.layers # <<>>


(***************************************************************************)
(* C19: the logo, whenever one is set, is a file whose type begins with    *)
(* "image/", whichever of the file picker and the drop zone stored it, and *)
(* drawLogoToCanvas is never at work on a file of another type.            *)
(***************************************************************************)
C19_LogoIsImage ==
  /\ logoFile # NoFile => IsImageType(logoFile)
  /\ \A c \in cycles : c.pc = "decoding" => IsImageType(c.snap.logoFile)


\* the canvas after one render of the values snap on a blank canvas
CleanRender(snap) ==
  LET sized == ClearRect(SetSize(BlankCanvas, snap.qrSize, snap.qrSize))
      encoded == ToCanvas(sized, snap.text, EncoderOptions(snap)).canvas
  IN IF snap.logoFile = NoFile
       THEN encoded
       ELSE DrawImage(encoded, snap.logoFile, snap.logoSizePercent)

\* no timer is pending and no cycle is in flight
Quiescent == timers = {} /\ cycles = {}

(***************************************************************************)
(* C20: in every quiescent state with isGenerated true, the canvas, which  *)
(* is what the download button exports, is the clean render of the current *)
(* values: the QR code of the current text, colours, transparency and      *)
(* qrSize, with the logo at the current logoSizePercent on top exactly     *)
(* when a logo is set.                                                     *)
(***************************************************************************)
C20_ExportIsCurrentRender ==
  (Quiescent /\ isGenerated) => canvas = CleanRender(Snapshot)

=============================================================================
